---- MODULE Spec2Model ----
(***************************************************************************)
(* A model of thesoup::types (cppsoup): the closed-sum-type Result         *)
(* (variant store + is_error), the field-struct Result with its ok/error   *)
(* factories, the Slice fat pointer and the IsForwardIteratorOfType trait. *)
(***************************************************************************)
EXTENDS Integers, Sequences, FiniteSets, TLC

(* ------------------------------ bounds -------------------------------- *)
\* payload values of the Result types are 0..MaxVal
MaxVal == 3
\* width in bits of std::size_t (scaled down)
W == 2
\* number of elements of the storage a Slice is taken over
MemLen == 2
\* storage elements are 0..MaxElem
MaxElem == 1
\* diagnostic messages are strings of at most MaxMsgLen characters
MaxMsgLen == 2
\* accessor calls that throw are counted up to MaxFailed
MaxFailed == 2

(* ------------------------------ state --------------------------------- *)
VARIABLES
    TE,      \* closed-sum Result: the template arguments <<T, E>>
    resB,    \* closed-sum Result: the object (store, is_error), or NoResult
    made,    \* closed-sum Result: the factory call that produced resB
    outB,    \* closed-sum Result: outcome of the last accessor call
    failed,  \* closed-sum Result: how many accessor calls have thrown so far
    mem,     \* Slice: the storage (address -> element)
    slice,   \* Slice: the view (start, size), or NoSlice before construction
    out,     \* Slice: outcome of the last indexed access
    written, \* Slice: per storage cell, the value last written through view[i]
    trav,    \* Slice: the running / finished begin()..end() traversal
    resA,    \* field-struct Result: the struct (type, val, error, message)
    how,     \* field-struct Result: how resA was produced
    got,     \* field-struct Result: the field last read back
    trait    \* IsForwardIteratorOfType: the last instantiation <It, T> and its value

varsB == <<TE, resB, made, outB, failed>>
varsS == <<mem, slice, out, written, trav>>
varsA == <<resA, how, got>>
varsT == <<trait>>
vars == <<TE, resB, made, outB, failed, mem, slice, out, written, trav, resA, how, got, trait>>

(* ===================== closed-sum-type Result ========================= *)
Types == {"int", "string"}

\* a value of static type ty
Values(ty) == {[ty |-> ty, n |-> k] : k \in 0..MaxVal}

NoResult == [none |-> TRUE]
NoCall == [op |-> "none"]

\* struct _Error { E err; _Error(const E& err): err {err} {} }
_Error(err) == [err |-> err]

\* Overload set of std::variant<T, _Error>'s converting constructor for an
\* argument of static type argTy: alternative 0 is T, alternative 1 is
\* _Error (reachable from an E through the implicit _Error(const E&)).
ViableAlternatives(T, E, argTy) ==
    (IF argTy = T THEN {0} ELSE {}) \cup
    (IF argTy = "_Error" \/ argTy = E THEN {1} ELSE {})

\* conversion rank of the argument to alternative i: 0 exact match,
\* 1 user-defined conversion
ConversionRank(T, E, argTy, i) ==
    IF (i = 0 /\ argTy = T) \/ (i = 1 /\ argTy = "_Error") THEN 0 ELSE 1

\* const std::variant<T, _Error> store, initialised as store {x}
variant_store(T, E, argTy, x) ==
    LET via == ViableAlternatives(T, E, argTy)
        best == CHOOSE i \in via :
                  \A j \in via : ConversionRank(T, E, argTy, i)
                                   <= ConversionRank(T, E, argTy, j)
    IN  [index |-> best, held |-> IF best = 1 /\ argTy # "_Error" THEN _Error(x) ELSE x]

\* a Result(T&&) that initialises is_error {true}
Result_val_flagged(T, E, val) ==
    [store |-> variant_store(T, E, T, val), is_error |-> TRUE]

\* Result(T&& val) noexcept: store {std::move(val)}, is_error {false}
Result_val(T, E, val) ==
    [store |-> variant_store(T, E, T, val), is_error |-> FALSE]

\* Result(const E& err, bool is_error) noexcept: store {_Error(err)}, is_error {is_error}
Result_err(T, E, err, is_error) ==
    [store |-> variant_store(T, E, "_Error", _Error(err)), is_error |-> is_error]

\* static Result<T,E> success(T&& val)
Result_success(T, E, val) == Result_val(T, E, val)

\* a failure() that passes false for is_error
Result_failure_unflagged(T, E, err) == Result_err(T, E, err, FALSE)

\* static Result<T,E> failure(E&& err)
Result_failure(T, E, err) == Result_err(T, E, err, TRUE)

\* an operator bool() that returns is_error
operator_bool_inverted(r) == r.is_error

\* operator bool() const
operator_bool(r) == ~r.is_error

\* std::get<T>(store) / std::get<_Error>(store)
variant_get(store, i) ==
    IF store.index = i THEN [kind |-> "value", val |-> store.held]
    ELSE [kind |-> "bad_variant_access"]

\* an unwrap() without the is_error test
unwrap_unchecked(r) == variant_get(r.store, 0)

\* const T& unwrap()
unwrap(r) ==
    IF r.is_error THEN [kind |-> "runtime_error"]
    ELSE variant_get(r.store, 0)

\* const E& error()   (the accessor of the closed-sum Result)
Result_error(r) ==
    IF ~r.is_error THEN [kind |-> "runtime_error"]
    ELSE LET g == variant_get(r.store, 1)
         IN  IF g.kind = "value" THEN [kind |-> "value", val |-> g.val.err] ELSE g

(* ============================== Slice ================================= *)
\* std::size_t is W bits wide
SizeMax == 2^W - 1
Size_t == 0..SizeMax

\* T* start: addresses are as wide as std::size_t and count in elements;
\* 0 is nullptr and the storage occupies Base..Base+MemLen-1
nullptr == 0
Base == 1
Cells == Base..(Base + MemLen - 1)

\* pointer arithmetic p + k, as the machine does it
ptr_add(p, k) == (p + k) % (2^W)
Elems == 0..MaxElem
None == -1

NoSlice == [none |-> TRUE]
NoOut == [op |-> "none"]
NoTrav == [pc |-> "idle"]
Unwritten == [a \in Cells |-> None]

\* Slice(): start {nullptr}, size {0} {}
Slice_default == [start |-> nullptr, size |-> 0]

\* Slice(T* start, const std::size_t size): start {start}, size {size} {}
Slice_ctor(start, size) == [start |-> start, size |-> size]

\* an index parameter one bit narrower than std::size_t
to_narrow_t(i) == i % (2^(W - 1))

\* the implicit conversion of an index argument to const std::size_t&
to_size_t(i) == i % (2^W)

\* an operator[] whose element is start[idx + 1]
operator_index_shifted(s, idx) ==
    IF idx >= s.size THEN [kind |-> "out_of_range"]
    ELSE [kind |-> "ref", addr |-> ptr_add(s.start, idx + 1)]

\* T& operator[](const std::size_t& idx)
operator_index(s, idx) ==
    IF idx >= s.size THEN [kind |-> "out_of_range"]
    ELSE [kind |-> "ref", addr |-> ptr_add(s.start, idx)]

\* a const operator[] whose test is idx > size
operator_index_const_lax(s, idx) ==
    IF idx > s.size THEN [kind |-> "out_of_range"]
    ELSE [kind |-> "ref", addr |-> ptr_add(s.start, idx)]

\* const T& operator[](const std::size_t& idx) const
operator_index_const(s, idx) ==
    IF idx >= s.size THEN [kind |-> "out_of_range"]
    ELSE [kind |-> "ref", addr |-> ptr_add(s.start, idx)]

\* a begin() that returns &start[1]
begin_second(s) == ptr_add(s.start, 1)

\* T* begin()
begin(s) == s.start

\* const T* begin() const
begin_const(s) == s.start

\* const T* end()
end(s) == ptr_add(s.start, s.size)

\* a const end() that returns &start[size - 1]
end_const_last(s) == ptr_add(s.start, s.size - 1)

\* const T* end() const
end_const(s) == ptr_add(s.start, s.size)

\* the unknown value found at an address outside the storage
Wild == -2

\* reading through a reference or pointer: a storage cell yields its
\* element; any other address is undefined behaviour (a fault, or whatever
\* lies there)
Load(m, a) ==
    IF a \in Cells THEN {[kind |-> "ok", val |-> m[a]]}
    ELSE {[kind |-> "segv"], [kind |-> "ok", val |-> Wild]}

\* writing through a reference or pointer: undefined behaviour outside the
\* storage (a fault, or a store that lands elsewhere)
Store(m, a, v) ==
    IF a \in Cells THEN {[kind |-> "ok", mem |-> [m EXCEPT ![a] = v]]}
    ELSE {[kind |-> "segv"], [kind |-> "ok", mem |-> m]}

\* a view over the storage: the empty view, or a range inside the storage
Valid(s) ==
    \/ s.size = 0
    \/ s.start \in Cells /\ s.start + s.size <= Base + MemLen

(* ======================= field-struct Result ========================== *)
\* enum class OperationType { OK, ERR }
OperationType == {"OK", "ERR"}

\* std::nullopt and an engaged std::optional
nullopt == [has |-> FALSE]
optional(x) == [has |-> TRUE, value |-> x]

\* std::string: a sequence of characters
Chars == {"a", "b"}
Strings == UNION {[1..n -> Chars] : n \in 0..MaxMsgLen}
PayloadA == 0..MaxVal

\* template <typename T, typename E> struct Result, with its default
\* member initialisers
Result_struct ==
    [type |-> "ERR", val |-> nullopt, error |-> nullopt, message |-> nullopt]

\* Result<T, E> error(const E& err)
error(err) ==
    [type |-> "ERR", val |-> nullopt, error |-> optional(err), message |-> nullopt]

\* an error(err, msg) that drops an empty msg
error_msg_nonempty(err, msg) ==
    [type |-> "ERR", val |-> nullopt, error |-> optional(err),
     message |-> IF msg = <<>> THEN nullopt ELSE optional(msg)]

\* Result<T, E> error(const E& err, const std::string& msg)
error_msg(err, msg) ==
    [type |-> "ERR", val |-> nullopt, error |-> optional(err), message |-> optional(msg)]

\* an ok(val) that leaves type at its default
ok_untyped(val) ==
    [type |-> "ERR", val |-> optional(val), error |-> nullopt, message |-> nullopt]

\* Result<T, E> ok(const T& val)
ok(val) ==
    [type |-> "OK", val |-> optional(val), error |-> nullopt, message |-> nullopt]

Fields == {"type", "val", "error", "message"}
NoRead == [field |-> "none"]

(* ==================== IsForwardIteratorOfType ========================= *)
ValueTypes == {"int", "long", "char", "double", "void"}
\* the standard tags, and contiguous_iterator_tag for a tag type that
\* derives from random_access_iterator_tag without being it
Categories == {"input_iterator_tag", "output_iterator_tag", "forward_iterator_tag",
               "bidirectional_iterator_tag", "random_access_iterator_tag",
               "contiguous_iterator_tag"}

\* the types It ranges over: types std::iterator_traits has no members for
\* (such as int), and iterators with a category and a value type
NonIterators == {[traits |-> FALSE, name |-> "int"]}
Iterators == [traits : {TRUE}, iterator_category : Categories, value_type : ValueTypes]
ItTypes == NonIterators \cup Iterators

\* std::is_same<A, B>::value
is_same(A, B) == A = B

\* arithmetic value types convert to one another implicitly
is_convertible(A, B) == A = B \/ (A # "void" /\ B # "void")

\* a specialisation that tests the value type with std::is_convertible
SpecializationSelected_convertible(It, T) ==
    /\ It.traits
    /\ /\ \/ It.iterator_category = "forward_iterator_tag"
          \/ It.iterator_category = "random_access_iterator_tag"
          \/ It.iterator_category = "bidirectional_iterator_tag"
       /\ is_convertible(It.value_type, T)

\* the partial specialisation is selected when typename
\* std::iterator_traits<It>::... names a type (no substitution failure) and
\* the std::enable_if condition holds
SpecializationSelected(It, T) ==
    /\ It.traits
    /\ /\ \/ is_same(It.iterator_category, "forward_iterator_tag")
          \/ is_same(It.iterator_category, "random_access_iterator_tag")
          \/ is_same(It.iterator_category, "bidirectional_iterator_tag")
       /\ is_same(It.value_type, T)

\* IsForwardIteratorOfType<It, T>::value: true in the specialisation,
\* false in the primary template
IsForwardIteratorOfType(It, T) ==
    IF SpecializationSelected(It, T) THEN TRUE ELSE FALSE

NoQuery == [none |-> TRUE]

(* ================== the components at rest ================== *)
IdleB ==
    /\ TE = <<"int", "int">>
    /\ resB = NoResult
    /\ made = NoCall
    /\ outB = NoCall
    /\ failed = 0

IdleS ==
    /\ mem = [a \in Cells |-> 0]
    /\ slice = NoSlice
    /\ out = NoOut
    /\ written = Unwritten
    /\ trav = NoTrav

IdleA ==
    /\ resA = Result_struct
    /\ how = [by |-> "default"]
    /\ got = NoRead

IdleT == trait = NoQuery


(* ============ closed-sum-type Result: operations ============ *)
InitB ==
    /\ TE \in Types \X Types
    /\ resB = NoResult
    /\ made = NoCall
    /\ outB = NoCall
    /\ failed = 0
    /\ IdleS /\ IdleA /\ IdleT

\* the accessor call ended in an exception
Throws(r) == r.kind # "value"

\* Result<T,E>::success(v)
Success ==
    /\ resB = NoResult
    /\ \E v \in Values(TE[1]) :
         /\ resB' = Result_success(TE[1], TE[2], v)
         /\ made' = [op |-> "success", arg |-> v]
    /\ UNCHANGED <<TE, outB, failed, varsS, varsA, varsT>>

\* Result<T,E>::failure(e)
Failure ==
    /\ resB = NoResult
    /\ \E e \in Values(TE[2]) :
         /\ resB' = Result_failure(TE[1], TE[2], e)
         /\ made' = [op |-> "failure", arg |-> e]
    /\ UNCHANGED <<TE, outB, failed, varsS, varsA, varsT>>

\* res.unwrap()
Unwrap ==
    /\ resB # NoResult
    /\ Throws(unwrap(resB)) => failed < MaxFailed
    /\ outB' = [op |-> "unwrap"] @@ unwrap(resB)
    /\ failed' = IF Throws(unwrap(resB)) THEN failed + 1 ELSE failed
    /\ UNCHANGED <<TE, resB, made, varsS, varsA, varsT>>

\* res.error()
ErrorAccess ==
    /\ resB # NoResult
    /\ Throws(Result_error(resB)) => failed < MaxFailed
    /\ outB' = [op |-> "error"] @@ Result_error(resB)
    /\ failed' = IF Throws(Result_error(resB)) THEN failed + 1 ELSE failed
    /\ UNCHANGED <<TE, resB, made, varsS, varsA, varsT>>

\* if (res) ...
Truthiness ==
    /\ resB # NoResult
    /\ outB' = [op |-> "bool", kind |-> "value", val |-> operator_bool(resB)]
    /\ UNCHANGED <<TE, resB, made, failed, varsS, varsA, varsT>>

NextB == Success \/ Failure \/ Unwrap \/ ErrorAccess \/ Truthiness

SpecB == InitB /\ [][NextB]_vars


(* ==================== Slice: operations ====================== *)
InitS ==
    /\ mem \in [Cells -> Elems]
    /\ slice = NoSlice
    /\ out = NoOut
    /\ written = Unwritten
    /\ trav = NoTrav
    /\ IdleB /\ IdleA /\ IdleT

\* the caller is between two statements: the view exists, nothing has
\* faulted, no loop is running and the last access's result has been used
Alive == slice # NoSlice /\ out = NoOut /\ trav.pc \notin {"loop", "segv"}

\* Slice<T> s;
DefaultConstruct ==
    /\ slice = NoSlice
    /\ slice' = Slice_default
    /\ UNCHANGED <<mem, out, written, trav, varsB, varsA, varsT>>

\* Slice<T> s {start, size};
Construct ==
    /\ slice = NoSlice
    /\ \E start \in {nullptr} \cup Cells \cup {Base + MemLen}, size \in Size_t :
         /\ Valid(Slice_ctor(start, size)) \/ start = Base
         /\ slice' = Slice_ctor(start, size)
    /\ UNCHANGED <<mem, out, written, trav, varsB, varsA, varsT>>

\* T x = s[i];   (read-write overload)
IndexRead ==
    /\ Alive
    /\ \E i \in (-(2^W))..SizeMax :
         LET r == operator_index(slice, to_size_t(i)) IN
         IF r.kind = "out_of_range"
         THEN out' = [op |-> "read", given |-> i, kind |-> "out_of_range"]
         ELSE \E l \in Load(mem, r.addr) :
                out' = IF l.kind = "segv" THEN [op |-> "crashed", given |-> i]
                       ELSE [op |-> "read", given |-> i, kind |-> "ref",
                             addr |-> r.addr, val |-> l.val]
    /\ trav' = NoTrav
    /\ UNCHANGED <<mem, slice, written, varsB, varsA, varsT>>

\* T x = cs[i];   (read-only overload, through a const Slice&)
IndexReadConst ==
    /\ Alive
    /\ \E i \in (-(2^W))..SizeMax :
         LET r == operator_index_const(slice, to_size_t(i)) IN
         IF r.kind = "out_of_range"
         THEN out' = [op |-> "read_const", given |-> i, kind |-> "out_of_range"]
         ELSE \E l \in Load(mem, r.addr) :
                out' = IF l.kind = "segv" THEN [op |-> "crashed", given |-> i]
                       ELSE [op |-> "read_const", given |-> i, kind |-> "ref",
                             addr |-> r.addr, val |-> l.val]
    /\ trav' = NoTrav
    /\ UNCHANGED <<mem, slice, written, varsB, varsA, varsT>>

\* s[i] = v;
IndexWrite ==
    /\ Alive
    /\ \E i \in (-(2^W))..SizeMax, v \in Elems :
         LET r == operator_index(slice, to_size_t(i)) IN
         IF r.kind = "out_of_range"
         THEN /\ out' = [op |-> "write", given |-> i, kind |-> "out_of_range"]
              /\ UNCHANGED <<mem, written>>
         ELSE \E st \in Store(mem, r.addr, v) :
                IF st.kind = "segv"
                THEN /\ out' = [op |-> "crashed", given |-> i]
                     /\ UNCHANGED <<mem, written>>
                ELSE /\ out' = [op |-> "write", given |-> i, kind |-> "ref",
                                addr |-> r.addr, val |-> v]
                     /\ mem' = st.mem
                     /\ written' = IF r.addr \in Cells
                                   THEN [written EXCEPT ![r.addr] = v]
                                   ELSE written
    /\ trav' = NoTrav
    /\ UNCHANGED <<slice, varsB, varsA, varsT>>

\* for (const T& elem : cs)  /  for (const T& elem : s)  /  for (T& item : s) item++
\* auto __begin = s.begin(); auto __end = s.end();
TraverseBegin ==
    /\ Alive
    /\ \E mode \in {<<"const", "read">>, <<"mutable", "read">>, <<"mutable", "incr">>} :
         /\ mode[2] = "incr" => \A a \in Cells : mem[a] < MaxElem
         /\ trav' = [pc |-> "loop", overload |-> mode[1], body |-> mode[2],
                     it |-> IF mode[1] = "const" THEN begin_const(slice) ELSE begin(slice),
                     endp |-> IF mode[1] = "const" THEN end_const(slice) ELSE end(slice),
                     n |-> 0, cur |-> [addr |-> None, val |-> None],
                     mem0 |-> mem, view0 |-> slice]
    /\ out' = NoOut
    /\ UNCHANGED <<mem, slice, written, varsB, varsA, varsT>>

\* __begin != __end: visit *__begin, then ++__begin
TraverseStep ==
    /\ trav.pc = "loop"
    /\ trav.it # trav.endp
    /\ \E l \in Load(mem, trav.it) :
         IF l.kind = "segv"
         THEN /\ trav' = [trav EXCEPT !.pc = "segv"]
              /\ UNCHANGED <<mem, written>>
         ELSE IF trav.body = "read"
         THEN /\ trav' = [trav EXCEPT !.it = ptr_add(@, 1), !.n = @ + 1,
                                      !.cur = [addr |-> trav.it, val |-> l.val]]
              /\ UNCHANGED <<mem, written>>
         ELSE \E st \in Store(mem, trav.it, l.val + 1) :
                IF st.kind = "segv"
                THEN /\ trav' = [trav EXCEPT !.pc = "segv"]
                     /\ UNCHANGED <<mem, written>>
                ELSE /\ trav' = [trav EXCEPT !.it = ptr_add(@, 1), !.n = @ + 1,
                                             !.cur = [addr |-> trav.it, val |-> l.val]]
                     /\ mem' = st.mem
                     /\ written' = IF trav.it \in Cells
                                   THEN [written EXCEPT ![trav.it] = None]
                                   ELSE written
    /\ UNCHANGED <<slice, out, varsB, varsA, varsT>>

\* __begin == __end: the loop is over
TraverseEnd ==
    /\ trav.pc = "loop"
    /\ trav.it = trav.endp
    /\ trav' = [trav EXCEPT !.pc = "done"]
    /\ UNCHANGED <<mem, slice, out, written, varsB, varsA, varsT>>

\* the end of the statement that made the access: the caller has checked
\* its outcome and goes on (a fault ends the program instead)
StatementEnd ==
    /\ out.op \notin {"none", "crashed"}
    /\ out' = NoOut
    /\ UNCHANGED <<mem, slice, written, trav, varsB, varsA, varsT>>

NextS ==
    \/ DefaultConstruct
    \/ Construct
    \/ IndexRead
    \/ IndexReadConst
    \/ IndexWrite
    \/ TraverseBegin
    \/ TraverseStep
    \/ TraverseEnd
    \/ StatementEnd

SpecS == InitS /\ [][NextS]_vars

(* ============== field-struct Result: operations ============== *)
\* Result<T, E> res;
InitA == IdleA /\ IdleB /\ IdleS /\ IdleT

\* res = ok<T, E>(v)
CallOk ==
    /\ \E v \in PayloadA :
         /\ resA' = ok(v)
         /\ how' = [by |-> "ok", arg |-> v]
    /\ got' = NoRead
    /\ UNCHANGED <<varsB, varsS, varsT>>

\* res = error<T, E>(e)
CallError ==
    /\ \E e \in PayloadA :
         /\ resA' = error(e)
         /\ how' = [by |-> "error", arg |-> e]
    /\ got' = NoRead
    /\ UNCHANGED <<varsB, varsS, varsT>>

\* res = error<T, E>(e, msg)
CallErrorMsg ==
    /\ \E e \in PayloadA, msg \in Strings :
         /\ resA' = error_msg(e, msg)
         /\ how' = [by |-> "error_msg", arg |-> e, msg |-> msg]
    /\ got' = NoRead
    /\ UNCHANGED <<varsB, varsS, varsT>>

\* auto x {res.type}; auto x {res.val}; auto x {res.error}; auto x {res.message};
ReadField ==
    /\ \E f \in Fields : got' = [field |-> f, value |-> resA[f]]
    /\ UNCHANGED <<resA, how, varsB, varsS, varsT>>

NextA == CallOk \/ CallError \/ CallErrorMsg \/ ReadField

SpecA == InitA /\ [][NextA]_vars

(* ========== IsForwardIteratorOfType: instantiation =========== *)
InitT == IdleT /\ IdleA /\ IdleB /\ IdleS

\* IsForwardIteratorOfType<It, T>::value
Instantiate ==
    /\ \E It \in ItTypes, T \in ValueTypes :
         trait' = [It |-> It, T |-> T, value |-> IsForwardIteratorOfType(It, T)]
    /\ UNCHANGED <<varsB, varsS, varsA>>

NextT == Instantiate

SpecT == InitT /\ [][NextT]_vars

(* ============================== claims ================================ *)
IndexOps == {"read", "read_const", "write"}
ForwardOrBetter == {"forward_iterator_tag", "bidirectional_iterator_tag",
                    "random_access_iterator_tag"}

\* C1: a Result made by success(v) returns exactly v from unwrap(), and its
\* error() fails with a runtime error, also when T and E are the same type.
C1_SuccessUnwrapsToValue ==
    (resB # NoResult /\ made.op = "success") =>
        /\ outB.op = "unwrap" => (outB.kind = "value" /\ outB.val = made.arg)
        /\ outB.op = "error" => outB.kind = "runtime_error"

C1_Witness ==
    /\ made.op = "success"
    /\ TE[1] = TE[2]
    /\ outB.op = "unwrap"
    /\ outB.kind = "value"
    /\ outB.val = made.arg

\* C2: a Result made by failure(e) returns exactly e from error(), and its
\* unwrap() fails with a runtime error, also when T and E are the same type.
C2_FailureErrorsToValue ==
    (resB # NoResult /\ made.op = "failure") =>
        /\ outB.op = "error" => (outB.kind = "value" /\ outB.val = made.arg)
        /\ outB.op = "unwrap" => outB.kind = "runtime_error"

C2_Witness ==
    /\ made.op = "failure"
    /\ TE[1] = TE[2]
    /\ outB.op = "unwrap"
    /\ outB.kind = "runtime_error"

\* C3: for a Slice of length N over the storage and 0 <= i < N, operator[](i)
\* (either overload) refers to the storage element at offset i from start;
\* a read returns that element, a write stores into it, and a read of
\* view[i] returns the value last written through view[i].
C3_IndexInRange ==
    (/\ slice # NoSlice
     /\ Valid(slice)
     /\ out.op \in IndexOps \cup {"crashed"}
     /\ out.given >= 0
     /\ out.given < slice.size) =>
        /\ out.op # "crashed"
        /\ out.kind = "ref"
        /\ out.addr = slice.start + out.given
        /\ out.addr \in Cells
        /\ out.op = "write" => (mem[out.addr] = out.val /\ written[out.addr] = out.val)
        /\ out.op # "write" =>
             /\ out.val = mem[out.addr]
             /\ written[out.addr] # None => out.val = written[out.addr]

C3_Witness ==
    /\ slice # NoSlice
    /\ Valid(slice)
    /\ out.op = "read_const"
    /\ out.given = slice.size - 1
    /\ out.given >= 1
    /\ out.kind = "ref"
    /\ written[out.addr] = out.val
    /\ \E a \in Cells : a # out.addr /\ mem[a] # out.val

\* C4: for a Slice of length N (the default-constructed one included) and
\* every index i >= N, operator[](i) fails with out_of_range, returns no
\* element reference and leaves the storage untouched.
C4_IndexOutOfRange ==
    /\ [](\A op \in IndexOps \cup {"crashed"} :
            (slice # NoSlice /\ out.op = op /\ to_size_t(out.given) >= slice.size) =>
                out = [op |-> op, given |-> out.given, kind |-> "out_of_range"])
    /\ [][(/\ out'.op \in IndexOps
           /\ out' # out
           /\ to_size_t(out'.given) >= slice.size) => mem' = mem]_vars

C4_Witness ==
    /\ slice = Slice_default
    /\ out.op = "write"
    /\ out.given = 0
    /\ out.kind = "out_of_range"

\* C5 as stated: whatever the Slice's length, every negative index is
\* rejected with out_of_range once converted to the unsigned index type.
C5_NegativeAlwaysRejected ==
    (slice # NoSlice /\ out.op \in IndexOps \cup {"crashed"} /\ out.given < 0) =>
        (out.op # "crashed" /\ out.kind = "out_of_range")

\* C5 (amended): for a Slice of length at most 2^(W-1) and a negative index
\* of a signed type no wider than std::size_t (i >= -2^(W-1)), the converted
\* index is rejected by idx >= size with out_of_range.
C5_NegativeRejected ==
    (/\ slice # NoSlice
     /\ out.op \in IndexOps \cup {"crashed"}
     /\ out.given < 0
     /\ out.given >= -(2^(W - 1))
     /\ slice.size <= 2^(W - 1)) =>
        (out.op # "crashed" /\ out.kind = "out_of_range")

C5_Witness ==
    /\ slice # NoSlice
    /\ slice.size = 2^(W - 1)
    /\ out.op = "read"
    /\ out.given = -(2^(W - 1))
    /\ out.kind = "out_of_range"

\* C6: for a Slice of length N over the storage (N = 0 included), stepping
\* from begin() until end() visits exactly N elements, the k-th being the
\* storage element at offset k, with the const and the non-const overloads.
C6_TraversalInOrder ==
    (slice # NoSlice /\ Valid(slice) /\ trav.pc # "idle") =>
        /\ trav.pc # "segv"
        /\ trav.n <= slice.size
        /\ trav.n >= 1 =>
             /\ trav.cur.addr = slice.start + (trav.n - 1)
             /\ trav.cur.addr \in Cells
             /\ trav.cur.val = trav.mem0[trav.cur.addr]
        /\ trav.pc = "done" => trav.n = slice.size

C6_Witness ==
    /\ slice # NoSlice
    /\ Valid(slice)
    /\ trav.pc = "done"
    /\ trav.overload = "const"
    /\ trav.n = slice.size
    /\ slice.size = MemLen
    /\ \E a \in Cells : trav.mem0[a] # trav.mem0[Base]

\* C7: a mutable traversal of a Slice over the storage that increments each
\* visited element leaves every element of the range one higher, every
\* element outside it unchanged, and the view's start and size unchanged.
C7_IncrementFrame ==
    (/\ slice # NoSlice
     /\ Valid(slice)
     /\ trav.pc = "done"
     /\ trav.body = "incr") =>
        /\ \A a \in Cells :
             mem[a] = trav.mem0[a] +
                      (IF a >= slice.start /\ a < slice.start + slice.size THEN 1 ELSE 0)
        /\ slice = trav.view0

C7_Witness ==
    /\ slice # NoSlice
    /\ Valid(slice)
    /\ trav.pc = "done"
    /\ trav.body = "incr"
    /\ slice.size = 1
    /\ slice.start = Base + 1
    /\ mem[Base] = 0
    /\ mem[Base + 1] = 1

PayloadInvariant ==
    /\ resA.type = "OK" => (resA.val.has /\ ~resA.error.has)
    /\ resA.type = "ERR" => (resA.error.has /\ ~resA.val.has)
    /\ how.by = "ok" => resA.val = optional(how.arg)
    /\ how.by \in {"error", "error_msg"} => resA.error = optional(how.arg)

\* C8 as stated: every field-struct Result, the default-initialised one
\* included, has val present and error absent when OK, error present and
\* val absent when ERR, with the payload the factory was given.
C8_PayloadMatchesTypeAlways ==
    resA.type \in OperationType /\ PayloadInvariant

\* C8 (amended): every Result produced by ok(v), error(e) or error(e, msg)
\* has val present and error absent when OK, error present and val absent
\* when ERR, with the payload the factory was given; the default-initialised
\* Result is ERR with val, error and message all absent.
C8_PayloadMatchesType ==
    /\ how.by # "default" => PayloadInvariant
    /\ how.by = "ok" => resA.type = "OK"
    /\ how.by \in {"error", "error_msg"} => resA.type = "ERR"
    /\ how.by = "default" =>
         resA = [type |-> "ERR", val |-> nullopt, error |-> nullopt, message |-> nullopt]

C8_Witness ==
    /\ how.by = "ok"
    /\ resA.type = "OK"
    /\ resA.val = optional(how.arg)
    /\ got.field = "error"
    /\ ~got.value.has

\* C9: error(e, msg) yields a present message equal to msg, the empty
\* string included; error(e) and ok(v) yield an absent message; absent and
\* present-but-empty differ.
C9_MessageReadBack ==
    /\ how.by = "error_msg" =>
         /\ resA.message.has
         /\ resA.message.value = how.msg
         /\ resA.message # Result_struct.message
         /\ got.field = "message" => (got.value.has /\ got.value.value = how.msg)
    /\ how.by \in {"error", "ok"} =>
         /\ ~resA.message.has
         /\ got.field = "message" => ~got.value.has

C9_Witness ==
    /\ how.by = "error_msg"
    /\ how.msg = <<>>
    /\ got.field = "message"
    /\ got.value.has
    /\ got.value.value = <<>>

\* C10: IsForwardIteratorOfType<It, T>::value is true exactly when It's
\* iterator category is forward, bidirectional or random-access and its
\* value type is exactly T; false for a type without iterator traits, for an
\* input-only or output-only iterator, and for a different value type.
C10_TraitExact ==
    trait # NoQuery =>
        /\ trait.value = TRUE <=>
             /\ trait.It \in Iterators
             /\ trait.It.iterator_category \in ForwardOrBetter
             /\ trait.It.value_type = trait.T
        /\ trait.It \in NonIterators => trait.value = FALSE
        /\ (trait.It \in Iterators /\ trait.It.iterator_category
                \in {"input_iterator_tag", "output_iterator_tag"}) => trait.value = FALSE
        /\ (trait.It \in Iterators /\ trait.It.value_type # trait.T) => trait.value = FALSE

C10_Witness ==
    /\ trait # NoQuery
    /\ trait.It \in Iterators
    /\ trait.It.iterator_category = "random_access_iterator_tag"
    /\ trait.It.value_type = "int"
    /\ trait.T = "long"
    /\ trait.value = FALSE

\* C11: over any sequence of truthiness, unwrap() and error() calls, failed
\* ones included, the truthiness check is true for a Result made by success
\* and false for one made by failure, the matching accessor returns the
\* payload the factory was given, and no call changes the Result.
C11_NeverTransitions ==
    /\ [](resB # NoResult =>
            /\ outB.op = "bool" => (outB.val <=> made.op = "success")
            /\ (outB.op = "unwrap" /\ made.op = "success") =>
                 (outB.kind = "value" /\ outB.val = made.arg)
            /\ (outB.op = "error" /\ made.op = "failure") =>
                 (outB.kind = "value" /\ outB.val = made.arg)
            /\ operator_bool(resB) <=> made.op = "success")
    /\ [][resB # NoResult => (resB' = resB /\ made' = made)]_vars

C11_Witness ==
    /\ made.op = "failure"
    /\ failed = MaxFailed
    /\ outB.op = "bool"
    /\ outB.val = FALSE

\* C12: for a Result made by success or failure, is_error is true exactly
\* when the store holds the wrapped error and false exactly when it holds
\* the T, also when T and E are the same type; one payload is held and the
\* accessor the discriminant selects never meets the other alternative.
C12_DiscriminantMatchesStore ==
    resB # NoResult =>
        /\ resB.store.index \in {0, 1}
        /\ resB.is_error <=> resB.store.index = 1
        /\ ~resB.is_error <=> resB.store.index = 0
        /\ made.op = "success" => resB.store = [index |-> 0, held |-> made.arg]
        /\ made.op = "failure" => resB.store = [index |-> 1, held |-> _Error(made.arg)]
        /\ outB.op \in {"unwrap", "error"} => outB.kind # "bad_variant_access"

C12_Witness ==
    /\ made.op = "failure"
    /\ TE[1] = TE[2]
    /\ resB.is_error
    /\ resB.store.index = 1
    /\ outB.op = "error"
    /\ outB.kind = "value"

====
